---- MODULE Spec2Model ----
(***************************************************************************)
(* universal-analytics-python3: the batching Transport                     *)
(* (universal_analytics/requests.py) and the Tracker                       *)
(* (universal_analytics/tracker.py).                                       *)
(*                                                                         *)
(* Spec         the synchronous batch Transport, HTTPBatchRequest, driven  *)
(*              by any serialised sequence of send() and close() calls,    *)
(*              each POST of the session succeeding or raising.            *)
(* SpecTracker  one Tracker driven by any sequence of send, set and the    *)
(*              item-style accessors.                                      *)
(* SpecScoped   each of the four Transport classes used as the context     *)
(*              manager of one with / async with statement, the body       *)
(*              sending hits until it ends, normally or with an error.     *)
(* SpecResolve  Tracker.coerceParameter applied to pairs of names and a    *)
(*              value, and generate_uuid applied twice to an argument.     *)
(***************************************************************************)
EXTENDS Integers, Sequences, FiniteSets, TLC

VARIABLES
    max_batch_size,  \* HTTPBatchRequest.max_batch_size of the instance
    batch_data,      \* HTTPBatchRequest._batch_data, a Python list
    session,         \* every call made on self.session so far, in order
    sent,            \* the hits passed to send() so far, in order
    ncalls,          \* number of send()/close() calls made on the Transport
    last,            \* the last call on the Transport and how it ended
    params,          \* Tracker.params, an insertion-ordered dict
    hash_client_id,  \* Tracker.hash_client_id
    account0,        \* the account argument of Tracker.__init__
    http,            \* number of calls of Tracker.http.send so far
    tlast,           \* the last call on the Tracker, its inputs and outcome
    tops,            \* number of calls made on the Tracker
    variant,         \* the class of the Transport
    scope,           \* the with statement the Transport is the manager of
    res,             \* the last coerceParameter calls and what they returned
    a_tasks,         \* the coroutines calling an async Transport
    a_calls,         \* the calls started on the async Transport, in order
    a_overlap        \* a call was started while another was suspended

transportVars == <<max_batch_size, batch_data, session, sent, ncalls, last>>
trackerVars == <<params, hash_client_id, account0, http, tlast, tops>>
scopeVars == <<variant, scope>>
resolveVars == <<res>>
asyncVars == <<a_tasks, a_calls, a_overlap>>
vars == <<transportVars, trackerVars, scopeVars, resolveVars, asyncVars>>

(***************************************************************************)
(* Bounds of the model.                                                    *)
(***************************************************************************)
MaxBatchSize == 3   \* max_batch_size ranges over 1..MaxBatchSize
MaxSends == 5       \* send() calls on the Transport in one behaviour
MaxCloses == 2      \* close() calls on the Transport in one behaviour
MaxTrackerOps == 2  \* calls on the Tracker in one behaviour

(***************************************************************************)
(* Generic helpers.                                                        *)
(***************************************************************************)
RECURSIVE Concat(_)
\* Concatenation of a sequence of sequences.
Concat(ss) == IF ss = <<>> THEN <<>> ELSE Head(ss) \o Concat(Tail(ss))

Range(s) == {s[i] : i \in 1..Len(s)}

(***************************************************************************)
(* requests.py                                                             *)
(*                                                                         *)
(* A hit payload is a Python dict, modelled as the sequence of its         *)
(* <<key, value>> items in insertion order.  A hit in the batch buffer is  *)
(* [id, payload]: id is the identity of the object passed to send(), its   *)
(* ordinal among the send() calls.                                         *)
(***************************************************************************)
CollectEndpoint_batch == "https://www.google-analytics.com/batch"
CollectEndpoint == "https://www.google-analytics.com/collect"
BatchEndpoint == "https://www.google-analytics.com/batch"

\* The payloads the transport tests send.
Payloads == { << <<"foo", "bar">> >>, << <<"bar", "foo">> >> }

RECURSIVE JoinStr(_, _)
\* sep.join(strs)
JoinStr(strs, sep) ==
    IF strs = <<>> THEN ""
    ELSE IF Len(strs) = 1 THEN strs[1]
    ELSE strs[1] \o sep \o JoinStr(Tail(strs), sep)

\* urllib.parse.urlencode of a dict: k=v pairs joined by "&".  quote_plus is
\* the identity on the unreserved characters the model's payloads are made of.
urlencode(payload) ==
    JoinStr([i \in 1..Len(payload) |-> payload[i][1] \o "=" \o payload[i][2]],
            "&")

\* encode_payload: a payload that is not a list is wrapped into a one-element
\* list; the url-encoded elements are joined by a newline.  A list is
\* [list |-> <<hit, ...>>], a single dict is [dict |-> payload].
encode_payload(payload) ==
    LET items == IF "list" \in DOMAIN payload
                 THEN [i \in 1..Len(payload.list) |-> payload.list[i].payload]
                 ELSE <<payload.dict>>
    IN JoinStr([i \in 1..Len(items) |-> urlencode(items[i])], "\n")

\* One session.post(endpoint, data=body) call made by HTTPRequest.send; ok is
\* FALSE when the call raised.
PostCall(endpoint, data, ok, call) ==
    [op |-> "post", url |-> endpoint, hits |-> data,
     body |-> encode_payload([list |-> data]), ok |-> ok, call |-> call]

\* One session.close() call.
CloseCall(call) ==
    [op |-> "close", url |-> "", hits |-> <<>>, body |-> "", ok |-> TRUE,
     call |-> call]

\* HTTPBatchRequest.reset
reset == <<>>

\* HTTPBatchRequest._send on buffer buf, the POST succeeding iff ok:
\* posts the buffer when it is non-empty, then resets it.  When the POST
\* raises, the exception leaves _send before reset() runs.
BatchFlush(buf, ok, call) ==
    IF buf # <<>>
    THEN [posts |-> <<PostCall(BatchEndpoint, buf, ok, call)>>,
          raised |-> IF ok THEN "none" ELSE "NetworkError",
          buf |-> IF ok THEN reset ELSE buf]
    ELSE [posts |-> <<>>, raised |-> "none", buf |-> reset]

\* HTTPBatchRequest.send, line 95: self._batch_data.append(data)
BatchAppend_prepend(buf, hit) == <<hit>> \o buf
BatchAppend(buf, hit) == Append(buf, hit)

\* HTTPBatchRequest.send, line 96: len(self._batch_data) >= self.max_batch_size
BatchFull_gt(buf, m) == Len(buf) > m
BatchFull(buf, m) == Len(buf) >= m

\* HTTPBatchRequest.close: the session calls of _send() followed by the
\* session.close() of HTTPRequest.close(), which a raising _send() skips.
BatchCloseCalls_release_first(r, call) ==
    (IF r.raised = "none" THEN <<CloseCall(call)>> ELSE <<>>) \o r.posts
BatchCloseCalls(r, call) ==
    r.posts \o (IF r.raised = "none" THEN <<CloseCall(call)>> ELSE <<>>)

\* The classes of requests.py.
Variants == {"HTTPRequest", "HTTPBatchRequest",
             "AsyncHTTPRequest", "AsyncHTTPBatchRequest"}
IsBatch(cls) == cls \in {"HTTPBatchRequest", "AsyncHTTPBatchRequest"}

\* The Transport of a behaviour that uses it without a with statement.
Unscoped ==
    [pc |-> "unscoped", body_error |-> "none", closes |-> 0,
     propagated |-> "none"]

\* The caller can make its next call on the Transport: outside a with
\* statement always; inside one, while the body has not ended, which it does
\* when a call raises.
BodyRunning ==
    \/ scope.pc = "unscoped"
    \/ scope.pc = "body" /\ last.raised = "none"

\* What HTTPBatchRequest.send does with buffer buf for hit: append, then
\* _send() when the buffer is full.  [posts, raised, buf]
BatchSendResult(buf, m, hit, ok, call) ==
    IF BatchFull(BatchAppend(buf, hit), m)
    THEN BatchFlush(BatchAppend(buf, hit), ok, call)
    ELSE [posts |-> <<>>, raised |-> "none", buf |-> BatchAppend(buf, hit)]

\* HTTPBatchRequest.send(data), AsyncHTTPBatchRequest.send(data)
BatchSend(payload, ok) ==
    /\ IsBatch(variant)
    /\ BodyRunning
    /\ Len(sent) < MaxSends
    /\ LET call == ncalls + 1
           hit == [id |-> Len(sent) + 1, payload |-> payload]
           r == BatchSendResult(batch_data, max_batch_size, hit, ok, call)
       IN /\ (r.posts = <<>> => ok)
          /\ sent' = Append(sent, hit)
          /\ batch_data' = r.buf
          /\ session' = session \o r.posts
          /\ ncalls' = call
          /\ last' = [op |-> "send", raised |-> r.raised]
    /\ UNCHANGED <<max_batch_size, trackerVars, scopeVars, resolveVars,
                   asyncVars>>

\* HTTPBatchRequest.close(): _send(), then HTTPRequest.close() closes the
\* session.  When _send() raises, close() ends there.
BatchClose(ok) ==
    /\ ncalls - Len(sent) < MaxCloses
    /\ LET call == ncalls + 1
           r == BatchFlush(batch_data, ok, call)
       IN /\ (batch_data = <<>> => ok)
          /\ batch_data' = r.buf
          /\ session' = session \o BatchCloseCalls(r, call)
          /\ ncalls' = call
          /\ last' = [op |-> "close", raised |-> r.raised]
    /\ UNCHANGED <<max_batch_size, sent, trackerVars, scopeVars, resolveVars,
                   asyncVars>>

(***************************************************************************)
(* tracker.py                                                              *)
(*                                                                         *)
(* A Python value is [ty, v]: ty its type, v its content.  A dict (the     *)
(* session parameters, keyword data, a mapping argument, a payload) is the *)
(* sequence of its <<key, value>> items in insertion order.                *)
(***************************************************************************)
None == [ty |-> "none", v |-> 0]
StrV(s) == [ty |-> "str", v |-> s]
IntV(n) == [ty |-> "int", v |-> n]
\* A float with an integral value n.0.
FloatV(n) == [ty |-> "float", v |-> n]
\* A datetime.datetime, v its Unix time in seconds.
DatetimeV(t) == [ty |-> "datetime", v |-> t]
DictV(items) == [ty |-> "dict", v |-> items]

\* dict operations on the insertion-ordered item sequence
DictKeys(d) == {d[i][1] : i \in 1..Len(d)}
DictHas(d, k) == k \in DictKeys(d)
DictIndex(d, k) == CHOOSE i \in 1..Len(d) : d[i][1] = k
\* d.get(k, None)
DictGet(d, k) == IF DictHas(d, k) THEN d[DictIndex(d, k)][2] ELSE None
\* d[k] = v: an existing key keeps its position, a new key goes last
DictSet(d, k, val) ==
    IF DictHas(d, k) THEN [d EXCEPT ![DictIndex(d, k)] = <<k, val>>]
    ELSE Append(d, <<k, val>>)
\* del d[k] / d.pop(k) of a key that is present
DictDel(d, k) == SelectSeq(d, LAMBDA item : item[1] # k)

RECURSIVE DictFromPairs(_, _)
\* dict(pairs), starting from acc: a later pair overwrites the value of an
\* earlier pair with the same key.
DictFromPairs(acc, pairs) ==
    IF pairs = <<>> THEN acc
    ELSE DictFromPairs(DictSet(acc, Head(pairs)[1], Head(pairs)[2]),
                       Tail(pairs))

\* Decimal literals int() and float() parse in the model.
IsIntLiteral(s) == \E n \in 0..9 : ToString(n) = s
ParseInt(s) == CHOOSE n \in 0..9 : ToString(n) = s

\* str(value), also what safe_unicode returns
StrOf(value) ==
    CASE value.ty = "str" -> value.v
      [] value.ty = "int" -> ToString(value.v)
      [] value.ty = "float" -> ToString(value.v) \o ".0"
      [] value.ty = "none" -> "None"
      [] value.ty = "datetime" -> "datetime(" \o ToString(value.v) \o ")"
      [] OTHER -> "{...}"

\* typecast(value) for the coercers the registry uses: int, float, str and
\* safe_unicode.  [err, value]: err is the exception raised, or "none".
Typecast(typecast, value) ==
    CASE typecast \in {"safe_unicode", "str"} ->
            [err |-> "none", value |-> StrV(StrOf(value))]
      [] typecast = "int" ->
            CASE value.ty \in {"int", "float"} ->
                    [err |-> "none", value |-> IntV(value.v)]
              [] value.ty = "str" ->
                    IF IsIntLiteral(value.v)
                    THEN [err |-> "none", value |-> IntV(ParseInt(value.v))]
                    ELSE [err |-> "ValueError", value |-> None]
              [] OTHER -> [err |-> "TypeError", value |-> None]
      [] typecast = "float" ->
            CASE value.ty \in {"int", "float"} ->
                    [err |-> "none", value |-> FloatV(value.v)]
              [] value.ty = "str" ->
                    IF IsIntLiteral(value.v)
                    THEN [err |-> "none", value |-> FloatV(ParseInt(value.v))]
                    ELSE [err |-> "ValueError", value |-> None]
              [] OTHER -> [err |-> "TypeError", value |-> None]

\* The Tracker.alias(...) declarations of the module, a representative part
\* of them, in source order: <<typemap, base, names>>.
AliasDeclarations == <<
    <<"int", "v", {"protocol-version"}>>,
    <<"safe_unicode", "cid", {"client-id", "clientId", "clientid"}>>,
    <<"safe_unicode", "tid", {"trackingId", "account"}>>,
    <<"safe_unicode", "uid", {"user-id", "userId", "userid"}>>,
    <<"safe_unicode", "dp", {"page", "path"}>>,
    <<"int", "qt", {"queueTime", "queue-time"}>>,
    <<"safe_unicode", "t", {"hitType", "hittype"}>>,
    <<"safe_unicode", "cn", {"campaign", "campaignName", "campaign-name"}>>,
    <<"float", "tr", {"revenue", "transactionRevenue",
                      "transaction-revenue"}>>,
    <<"safe_unicode", "ec", {"event-category", "eventCategory", "category"}>>,
    <<"safe_unicode", "ea", {"event-action", "eventAction", "action"}>>,
    <<"safe_unicode", "el", {"event-label", "eventLabel", "label"}>>,
    <<"int", "ev", {"event-value", "eventValue", "value"}>>,
    <<"safe_unicode", "sa", {"social-action", "socialAction"}>>,
    <<"safe_unicode", "sn", {"social-network", "socialNetwork"}>>,
    <<"safe_unicode", "st", {"social-target", "socialTarget"}>>,
    <<"safe_unicode", "utc", {"timingCategory", "timing-category"}>>,
    <<"safe_unicode", "utv", {"timingVariable", "timing-variable"}>>,
    <<"int", "utt", {"time", "timingTime", "timing-time"}>>,
    <<"safe_unicode", "utl", {"timingLabel", "timing-label"}>>,
    <<"safe_unicode", "cd1", {"dimension1"}>>,
    <<"int", "cm1", {"metric1"}>>,
    <<"str", "pa", {}>> >>

\* Tracker.alias(typemap, base, *names) applied to the table so far: base and
\* every name map to (typemap, base), overwriting earlier entries.
alias_names_str(table, typemap, base, names) ==
    [n \in ({base} \cup names) |->
        [typecast |-> IF n = base THEN typemap ELSE "str", base |-> base]]
        @@ table
alias(table, typemap, base, names) ==
    [n \in ({base} \cup names) |-> [typecast |-> typemap, base |-> base]]
        @@ table

RECURSIVE AliasAll(_, _)
AliasAll(table, decls) ==
    IF decls = <<>> THEN table
    ELSE AliasAll(alias(table, Head(decls)[1], Head(decls)[2], Head(decls)[3]),
                  Tail(decls))

\* Tracker.parameter_alias once the module is imported
parameter_alias == AliasAll(<<>>, AliasDeclarations)

\* Names that begin with the raw-override marker: "&" followed by a rest.
RawRests == {"foo", "v", "page", "dp", ""}
StartsWithMarker(name) == \E r \in RawRests : name = "&" \o r
\* name[1:]
StripMarker(name) == CHOOSE r \in RawRests : name = "&" \o r

ErrUnrecognized == "KeyError: Parameter is not recognized"
ErrHitType == "KeyError: Unsupported Universal Analytics Hit Type"
ErrNoCid == "KeyError: 'cid'"

\* Tracker.coerceParameter(name, value): [err, param, value].  name[0] of the
\* empty string raises IndexError.
coerceParameter_typed(name, value) ==
    IF name = ""
    THEN [err |-> "IndexError", param |-> "", value |-> None]
    ELSE IF StartsWithMarker(name)
    THEN IF StripMarker(name) \in DOMAIN parameter_alias
         THEN LET c == Typecast(parameter_alias[StripMarker(name)].typecast,
                                value)
              IN [err |-> c.err, param |-> StripMarker(name),
                  value |-> c.value]
         ELSE [err |-> "none", param |-> StripMarker(name),
               value |-> StrV(StrOf(value))]
    ELSE IF name \in DOMAIN parameter_alias
    THEN LET c == Typecast(parameter_alias[name].typecast, value)
         IN [err |-> c.err, param |-> parameter_alias[name].base,
             value |-> c.value]
    ELSE [err |-> ErrUnrecognized, param |-> "", value |-> None]
coerceParameter(name, value) ==
    IF name = ""
    THEN [err |-> "IndexError", param |-> "", value |-> None]
    ELSE IF StartsWithMarker(name)
    THEN [err |-> "none", param |-> StripMarker(name),
          value |-> StrV(StrOf(value))]
    ELSE IF name \in DOMAIN parameter_alias
    THEN LET c == Typecast(parameter_alias[name].typecast, value)
         IN [err |-> c.err, param |-> parameter_alias[name].base,
             value |-> c.value]
    ELSE [err |-> ErrUnrecognized, param |-> "", value |-> None]

\* Tracker.valid_hittypes
valid_hittypes == {"pageview", "event", "social", "screenview",
                   "transaction", "item", "exception", "timing"}

\* Tracker.option_sequence
option_sequence ==
    [pageview |-> << <<"str", "dp">> >>,
     event |-> << <<"str", "ec">>, <<"str", "ea">>, <<"str", "el">>,
                  <<"int", "ev">> >>,
     social |-> << <<"str", "sn">>, <<"str", "sa">>, <<"str", "st">> >>,
     timing |-> << <<"str", "utc">>, <<"str", "utv">>, <<"str", "utt">>,
                   <<"str", "utl">> >>]

\* generate_uuid(basedata): a random UUID rnd for None, the MD5-derived UUID of
\* a string, TypeError for anything else.  [err, value].
generate_uuid_lenient(basedata, rnd) ==
    CASE basedata.ty = "none" -> [err |-> "none", value |-> StrV(rnd)]
      [] OTHER ->
            [err |-> "none",
             value |-> StrV("md5(" \o StrOf(basedata) \o ")")]
generate_uuid(basedata, rnd) ==
    CASE basedata.ty = "none" -> [err |-> "none", value |-> StrV(rnd)]
      [] basedata.ty = "str" ->
            [err |-> "none", value |-> StrV("md5(" \o basedata.v \o ")")]
      [] OTHER -> [err |-> "TypeError", value |-> None]

RECURSIVE PayloadFrom(_, _)
\* The iteration of Tracker.payload over the items left, pairs being the
\* pairs yielded so far.
PayloadFrom(data, pairs) ==
    IF data = <<>> THEN [err |-> "none", pairs |-> pairs]
    ELSE LET c == coerceParameter(Head(data)[1], Head(data)[2])
         IN IF c.err = ErrUnrecognized THEN PayloadFrom(Tail(data), pairs)
            ELSE IF c.err # "none" THEN [err |-> c.err, pairs |-> <<>>]
            ELSE PayloadFrom(Tail(data),
                             Append(pairs, <<c.param, c.value>>))

\* Tracker.payload(data), consumed to the end: the coerced (param, value) pair
\* of every item in order, an item whose resolution raises KeyError being
\* skipped; any other exception ends the iteration and propagates.
payload(data) == PayloadFrom(data, <<>>)

\* Time.from_unix(seconds, milliseconds): seconds + milliseconds * .001 raises
\* TypeError when milliseconds is None.
from_unix(seconds, milliseconds) ==
    IF milliseconds.ty = "none"
    THEN [err |-> "TypeError", value |-> None]
    ELSE [err |-> "none", value |-> DatetimeV(seconds.v)]

\* Tracker.hittime(timestamp, age, milliseconds=None) at clock time now.
hittime(timestamp, age, now) ==
    IF timestamp.ty \in {"int", "float"}
    THEN LET t == from_unix(timestamp, None)
         IN IF t.err # "none" THEN t
            ELSE [err |-> "none", value |-> IntV((now - t.value.v) * 1000)]
    ELSE IF timestamp.ty = "datetime"
    THEN [err |-> "none", value |-> IntV((now - timestamp.v) * 1000)]
    ELSE IF age.ty \in {"int", "float"}
    THEN [err |-> "none", value |-> IntV(age.v * 1000)]
    ELSE [err |-> "none", value |-> None]

\* Tracker.set_timestamp(data): [err, data]
set_timestamp(data, now) ==
    LET h1 == IF DictHas(data, "hittime")
              THEN hittime(DictGet(data, "hittime"), None, now)
              ELSE [err |-> "none", value |-> None]
        d1 == IF DictHas(data, "hittime")
              THEN DictSet(DictDel(data, "hittime"), "qt", h1.value)
              ELSE data
        h2 == IF DictHas(d1, "hitage")
              THEN hittime(None, DictGet(d1, "hitage"), now)
              ELSE [err |-> "none", value |-> None]
        d2 == IF DictHas(d1, "hitage")
              THEN DictSet(DictDel(d1, "hitage"), "qt", h2.value)
              ELSE d1
    IN IF h1.err # "none" THEN [err |-> h1.err, data |-> data]
       ELSE [err |-> h2.err, data |-> d2]

\* isinstance(value, expected_type) for the types of option_sequence
IsInstance(value, expected_type) == value.ty = expected_type

RECURSIVE ConsumeSlots(_, _, _, _)
\* The loop of consume_options over the slots from opt_position on.
ConsumeSlots_shift(data, slots, args, opt_position) ==
    IF slots = <<>> THEN data
    ELSE IF opt_position + 1 <= Len(args)
            /\ IsInstance(args[opt_position + 1], Head(slots)[1])
         THEN ConsumeSlots(DictSet(data, Head(slots)[2],
                                   args[opt_position + 1]),
                           Tail(slots), args, opt_position + 1)
         ELSE ConsumeSlots(data, Tail(slots), args, opt_position)
ConsumeSlots(data, slots, args, opt_position) ==
    IF slots = <<>> THEN data
    ELSE ConsumeSlots(
            IF opt_position + 1 <= Len(args)
               /\ IsInstance(args[opt_position + 1], Head(slots)[1])
            THEN DictSet(data, Head(slots)[2], args[opt_position + 1])
            ELSE data,
            Tail(slots), args, opt_position + 1)

\* Tracker.consume_options(data, hittype, args)
consume_options(data, hittype, args) ==
    LET d == DictSet(data, "t", StrV(hittype))
    IN IF hittype \in DOMAIN option_sequence
       THEN ConsumeSlots(d, option_sequence[hittype], args, 0)
       ELSE d

RECURSIVE MergeMappings(_, _)
\* Tracker.send, lines 156-159: every dict among args is resolved by payload()
\* and merged into data.  [err, data]
MergeMappings(data, args) ==
    IF args = <<>> THEN [err |-> "none", data |-> data]
    ELSE IF Head(args).ty = "dict"
    THEN LET p == payload(Head(args).v)
         IN IF p.err # "none" THEN [err |-> p.err, data |-> data]
            ELSE MergeMappings(DictFromPairs(data, p.pairs), Tail(args))
    ELSE MergeMappings(data, Tail(args))

RECURSIVE FillAbsent(_, _)
\* Tracker.send, lines 162-164: every session key that is not a key of data is
\* added with its session value.
FillAbsent(data, prms) ==
    IF prms = <<>> THEN data
    ELSE FillAbsent(IF DictHas(data, Head(prms)[1]) THEN data
                    ELSE Append(data, Head(prms)),
                    Tail(prms))

\* Tracker.send, line 148
HitTypeValid_any(hittype) == TRUE
HitTypeValid(hittype) == hittype \in valid_hittypes

\* Tracker.send(hittype, *args, **data) on session parameters prms:
\* [err, sent, payload], sent telling whether http.send was called.
TrackerSendResult(prms, hash, hittype, args, data, now) ==
    LET fail(e) == [err |-> e, sent |-> FALSE, payload |-> <<>>]
        ts == set_timestamp(data, now)
        d2 == consume_options(ts.data, hittype, args)
        mm == MergeMappings(d2, args)
        d4 == FillAbsent(mm.data, prms)
        pl == payload(d4)
        d5 == DictFromPairs(<<>>, pl.pairs)
        uu == generate_uuid(DictGet(d5, "cid"), "")
    IN IF ~HitTypeValid(hittype) THEN fail(ErrHitType)
       ELSE IF ts.err # "none" THEN fail(ts.err)
       ELSE IF mm.err # "none" THEN fail(mm.err)
       ELSE IF pl.err # "none" THEN fail(pl.err)
       ELSE IF hash /\ ~DictHas(d5, "cid") THEN fail(ErrNoCid)
       ELSE IF hash /\ uu.err # "none" THEN fail(uu.err)
       ELSE [err |-> "none", sent |-> TRUE,
             payload |-> IF hash THEN DictSet(d5, "cid", uu.value) ELSE d5]

\* Tracker.set, lines 183 and 189: "except KeyError" swallows the error of an
\* unrecognized name and no other.
SetSwallows(err) == err = ErrUnrecognized

RECURSIVE SetMapping(_, _)
\* Tracker.set(mapping), lines 179-184: [err, params].  KeyError is swallowed
\* per entry; any other exception ends the loop and propagates, the entries
\* written before it staying written.
SetMapping(prms, mapping) ==
    IF mapping = <<>> THEN [err |-> "none", params |-> prms]
    ELSE LET c == coerceParameter(Head(mapping)[1], Head(mapping)[2])
         IN IF SetSwallows(c.err) THEN SetMapping(prms, Tail(mapping))
            ELSE IF c.err # "none" THEN [err |-> c.err, params |-> prms]
            ELSE SetMapping(DictSet(prms, c.param, c.value), Tail(mapping))

\* No with statement, and no coerceParameter call of its own.
ScopeIdle ==
    /\ variant = "HTTPBatchRequest"
    /\ scope = Unscoped
ResolveIdle == res = [op |-> "init"]

\* The coroutines that share one async Transport.
Coroutines == {1, 2}

\* A coroutine that is not inside a call on the Transport.
IdleTask == [pc |-> "idle", op |-> "none", call |-> 0, ok |-> TRUE]

\* No coroutine has called the Transport.
AsyncIdle ==
    /\ a_tasks = [c \in Coroutines |-> IdleTask]
    /\ a_calls = <<>>
    /\ a_overlap = FALSE

TransportInit ==
    /\ max_batch_size \in 1..MaxBatchSize
    /\ batch_data = reset
    /\ session = <<>>
    /\ sent = <<>>
    /\ ncalls = 0
    /\ last = [op |-> "init", raised |-> "none"]

\* The Transport of a behaviour that only drives the Tracker.
TransportIdle ==
    /\ max_batch_size = 20
    /\ batch_data = reset
    /\ session = <<>>
    /\ sent = <<>>
    /\ ncalls = 0
    /\ last = [op |-> "init", raised |-> "none"]

\* The Tracker of a behaviour that only drives the Transport.
TrackerIdle ==
    /\ params = <<>>
    /\ hash_client_id = FALSE
    /\ account0 = ""
    /\ http = 0
    /\ tlast = [op |-> "init"]
    /\ tops = 0

Init ==
    TransportInit /\ TrackerIdle /\ ScopeIdle /\ ResolveIdle /\ AsyncIdle

Next ==
    \/ \E p \in Payloads, ok \in BOOLEAN : BatchSend(p, ok)
    \/ \E ok \in BOOLEAN : BatchClose(ok)

Spec == Init /\ [][Next]_vars

(***************************************************************************)
(* The Tracker as a state machine.                                         *)
(***************************************************************************)
\* Inputs of the model.
Accounts == {"UA-1-1"}
\* <<client_id, user_id>> of the constructor calls: Tracker(account, http)
\* and Tracker(account, http, client_id="c1", user_id=2).
ConstructorArgs == { <<None, None>>, <<StrV("c1"), IntV(2)>> }
RandomUuids == {"uuid4-a"}
Clock == {50}
SendHitTypes == {"pageview", "event", "item", "bogus"}
SendArgs ==
    { <<>>,
      <<StrV("/a")>>,
      <<IntV(123), StrV("act")>>,
      <<DictV(<< <<"page", StrV("/a")>>, <<"nope", IntV(1)>> >>)>>,
      <<StrV("/a"), DictV(<< <<"t", StrV("event")>> >>)>> }
SendKw ==
    { <<>>,
      << <<"page", StrV("/a")>> >>,
      << <<"dp", StrV("/a")>> >>,
      << <<"nope", IntV(1)>>, <<"&foo", IntV(1)>> >>,
      << <<"", IntV(1)>> >>,
      << <<"hitage", IntV(3)>> >>,
      << <<"hittime", IntV(5)>> >>,
      << <<"hittime", DatetimeV(40)>> >>,
      << <<"hittime", DatetimeV(40)>>, <<"hitage", IntV(3)>> >>,
      << <<"hittime", IntV(5)>>, <<"hitage", IntV(3)>> >> }
Names == {"dp", "page", "account", "cid", "value", "nope", "", "&foo"}
SetValues == {StrV("/b"), IntV(7), None}
Mappings ==
    { << <<"nope", IntV(1)>>, <<"campaignName", StrV("x")>> >>,
      << <<"cn", StrV("x")>>, <<"", IntV(1)>>, <<"page", StrV("/b")>> >>,
      << <<"page", StrV("/b")>>, <<"value", StrV("abc")>>,
         <<"cn", StrV("x")>> >> }

\* bool(value) is False
Falsy(value) ==
    \/ value.ty = "none"
    \/ value = StrV("")
    \/ value = IntV(0)

\* Tracker.__init__(account, http, client_id, hash_client_id, user_id): the
\* session parameters it builds, rnd being the UUID generate_uuid() draws.
TrackerNew_version_only(account, client_id, user_id, rnd) ==
    LET p1 == << <<"v", IntV(1)>> >>
        p2 == DictSet(p1, "cid",
                      IF Falsy(client_id) THEN generate_uuid(None, rnd).value
                      ELSE client_id)
    IN IF user_id.ty # "none" THEN DictSet(p2, "uid", user_id) ELSE p2
TrackerNew(account, client_id, user_id, rnd) ==
    LET p1 == << <<"v", IntV(1)>>, <<"tid", StrV(account)>> >>
        p2 == DictSet(p1, "cid",
                      IF Falsy(client_id) THEN generate_uuid(None, rnd).value
                      ELSE client_id)
    IN IF user_id.ty # "none" THEN DictSet(p2, "uid", user_id) ELSE p2

\* Tracker.account
account == DictGet(params, "tid")

NoCall ==
    [op |-> "init", name |-> "", value |-> None, mapping |-> <<>>,
     hittype |-> "", args |-> <<>>, kw |-> <<>>, now |-> 0,
     raised |-> "none", result |-> None, delivered |-> FALSE,
     payload |-> <<>>, before |-> <<>>, hash_before |-> FALSE]

TrackerInit ==
    /\ \E a \in Accounts, c \in ConstructorArgs, r \in RandomUuids :
          /\ params = TrackerNew(a, c[1], c[2], r)
          /\ account0 = a
    /\ hash_client_id \in BOOLEAN
    /\ http = 0
    /\ tlast = NoCall
    /\ tops = 0

\* self.params after Tracker.send has built and delivered data: send writes
\* into data, the dict of its keyword arguments, and only reads self.params.
ParamsAfterSend_merged(prms, data) == IF data = <<>> THEN prms ELSE data
ParamsAfterSend(prms, data) == prms

\* Tracker.send(hittype, *args, **data); the clock is read only when a
\* hittime is converted.
TrackerSend(hittype, args, kw, now) ==
    /\ tops < MaxTrackerOps
    /\ now \in (IF DictHas(kw, "hittime") THEN Clock ELSE {0})
    /\ \E r \in {TrackerSendResult(params, hash_client_id, hittype, args, kw,
                                   now)} :
          /\ http' = IF r.sent THEN http + 1 ELSE http
          /\ tlast' = [NoCall EXCEPT !.op = "send", !.hittype = hittype,
                         !.args = args, !.kw = kw, !.now = now,
                         !.raised = r.err, !.delivered = r.sent,
                         !.payload = r.payload, !.before = params,
                         !.hash_before = hash_client_id]
          /\ params' = ParamsAfterSend(params, r.payload)
    /\ tops' = tops + 1
    /\ UNCHANGED <<hash_client_id, account0, transportVars,
                 scopeVars, resolveVars, asyncVars>>

\* Tracker.set(name, value) with a str name
TrackerSet(name, value) ==
    /\ tops < MaxTrackerOps
    /\ LET c == coerceParameter(name, value)
       IN /\ params' = IF c.err = "none"
                       THEN DictSet(params, c.param, c.value) ELSE params
          /\ tlast' = [NoCall EXCEPT !.op = "set", !.name = name,
                         !.value = value, !.before = params,
                         !.raised = IF SetSwallows(c.err) THEN "none"
                                    ELSE c.err]
    /\ tops' = tops + 1
    /\ UNCHANGED <<hash_client_id, account0, http, transportVars,
                 scopeVars, resolveVars, asyncVars>>

\* Tracker.set(mapping) with a dict
TrackerSetMapping(mapping) ==
    /\ tops < MaxTrackerOps
    /\ LET r == SetMapping(params, mapping)
       IN /\ params' = r.params
          /\ tlast' = [NoCall EXCEPT !.op = "setmapping",
                         !.mapping = mapping, !.before = params,
                         !.raised = r.err]
    /\ tops' = tops + 1
    /\ UNCHANGED <<hash_client_id, account0, http, transportVars,
                 scopeVars, resolveVars, asyncVars>>

\* Tracker.__getitem__(name)
TrackerGetItem(name) ==
    /\ tops < MaxTrackerOps
    /\ LET c == coerceParameter(name, None)
       IN tlast' = [NoCall EXCEPT !.op = "getitem", !.name = name,
                      !.before = params, !.raised = c.err,
                      !.result = IF c.err = "none"
                                 THEN DictGet(params, c.param) ELSE None]
    /\ tops' = tops + 1
    /\ UNCHANGED <<params, hash_client_id, account0, http, transportVars,
                 scopeVars, resolveVars, asyncVars>>

\* Tracker.__setitem__(name, value)
TrackerSetItem(name, value) ==
    /\ tops < MaxTrackerOps
    /\ LET c == coerceParameter(name, value)
       IN /\ params' = IF c.err = "none"
                       THEN DictSet(params, c.param, c.value) ELSE params
          /\ tlast' = [NoCall EXCEPT !.op = "setitem", !.name = name,
                         !.value = value, !.before = params,
                         !.raised = c.err]
    /\ tops' = tops + 1
    /\ UNCHANGED <<hash_client_id, account0, http, transportVars,
                 scopeVars, resolveVars, asyncVars>>

\* Tracker.__delitem__(name)
TrackerDelItem(name) ==
    /\ tops < MaxTrackerOps
    /\ LET c == coerceParameter(name, None)
       IN /\ params' = IF c.err = "none" /\ DictHas(params, c.param)
                       THEN DictDel(params, c.param) ELSE params
          /\ tlast' = [NoCall EXCEPT !.op = "delitem", !.name = name,
                         !.before = params, !.raised = c.err]
    /\ tops' = tops + 1
    /\ UNCHANGED <<hash_client_id, account0, http, transportVars,
                 scopeVars, resolveVars, asyncVars>>

InitTracker ==
    TransportIdle /\ TrackerInit /\ ScopeIdle /\ ResolveIdle /\ AsyncIdle

NextTracker ==
    \/ \E h \in SendHitTypes, a \in SendArgs, k \in SendKw,
          now \in Clock \cup {0} : TrackerSend(h, a, k, now)
    \/ \E n \in Names, val \in SetValues : TrackerSet(n, val)
    \/ \E m \in Mappings : TrackerSetMapping(m)
    \/ \E n \in Names : TrackerGetItem(n)
    \/ \E n \in Names, val \in SetValues : TrackerSetItem(n, val)
    \/ \E n \in Names : TrackerDelItem(n)

SpecTracker == InitTracker /\ [][NextTracker]_vars

(***************************************************************************)
(* The Transport as the context manager of a with statement:               *)
(*     with cls(session) as http: body                                     *)
(* and, for the Async classes, async with, the body awaiting each call.    *)
(* The body sends hits; it ends normally, or with the error of a send that *)
(* raised, or with an error of its own.  session.close() and, for the      *)
(* Async classes, session.aclose() are both logged as a "close" call.      *)
(***************************************************************************)
\* One session.post(endpoint, data=body) call made by HTTPRequest.send or
\* AsyncHTTPRequest.send for a single hit: encode_payload wraps the dict.
PostOne(endpoint, hit, ok, call) ==
    [op |-> "post", url |-> endpoint, hits |-> <<hit>>,
     body |-> encode_payload([dict |-> hit.payload]), ok |-> ok, call |-> call]

\* The with statement before __enter__ runs.
ScopeNew ==
    [pc |-> "new", body_error |-> "none", closes |-> 0,
     propagated |-> "none"]

\* __enter__ / __aenter__: return self
ScopeEnter ==
    /\ scope.pc = "new"
    /\ scope' = [scope EXCEPT !.pc = "body"]
    /\ UNCHANGED <<variant, transportVars, trackerVars, resolveVars,
                   asyncVars>>

\* HTTPRequest.send(data), AsyncHTTPRequest.send(data)
HTTPSend(data, ok) ==
    /\ ~IsBatch(variant)
    /\ BodyRunning
    /\ Len(sent) < MaxSends
    /\ LET call == ncalls + 1
           hit == [id |-> Len(sent) + 1, payload |-> data]
       IN /\ sent' = Append(sent, hit)
          /\ session' = Append(session,
                               PostOne(CollectEndpoint, hit, ok, call))
          /\ ncalls' = call
          /\ last' = [op |-> "send",
                      raised |-> IF ok THEN "none" ELSE "NetworkError"]
    /\ UNCHANGED <<max_batch_size, batch_data, trackerVars, scopeVars,
                   resolveVars, asyncVars>>

\* The body of the with statement raises an error of its own.
BodyRaise ==
    /\ scope.pc = "body"
    /\ last.raised = "none"
    /\ scope' = [scope EXCEPT !.pc = "raised", !.body_error = "BodyError"]
    /\ UNCHANGED <<variant, transportVars, trackerVars, resolveVars,
                   asyncVars>>

\* What __exit__(*exc) / __aexit__(*exc) returns: they end without a return
\* statement.
ExitReturn_true == IntV(1)
ExitReturn == None

\* The exception that leaves the with statement: the one __exit__ raised if
\* it raised; otherwise the body's, unless __exit__ returned a true value.
Propagated(body_error, close_error, exit_return) ==
    IF close_error # "none" THEN close_error
    ELSE IF Falsy(exit_return) THEN body_error
    ELSE "none"

\* __exit__(*exc) / __aexit__(*exc): self.close().  close() of a batch class
\* is _send() then the close() of the base class; close() of the base class
\* closes the session.
ScopeExit(ok) ==
    /\ scope.pc \in {"body", "raised"}
    /\ LET call == ncalls + 1
           r == IF IsBatch(variant) THEN BatchFlush(batch_data, ok, call)
                ELSE [posts |-> <<>>, raised |-> "none", buf |-> batch_data]
           body_error == IF scope.pc = "raised" THEN scope.body_error
                         ELSE last.raised
       IN /\ (r.posts = <<>> => ok)
          /\ batch_data' = r.buf
          /\ session' = session \o BatchCloseCalls(r, call)
          /\ ncalls' = call
          /\ last' = [op |-> "close", raised |-> r.raised]
          /\ scope' = [pc |-> "left", body_error |-> body_error,
                       closes |-> scope.closes + 1,
                       propagated |-> Propagated(body_error, r.raised,
                                                 ExitReturn)]
    /\ UNCHANGED <<max_batch_size, sent, variant, trackerVars, resolveVars,
                   asyncVars>>

InitScoped ==
    /\ variant \in Variants
    /\ max_batch_size \in (IF IsBatch(variant) THEN 1..MaxBatchSize ELSE {0})
    /\ batch_data = reset
    /\ session = <<>>
    /\ sent = <<>>
    /\ ncalls = 0
    /\ last = [op |-> "init", raised |-> "none"]
    /\ scope = ScopeNew
    /\ TrackerIdle
    /\ ResolveIdle
    /\ AsyncIdle

NextScoped ==
    \/ ScopeEnter
    \/ \E p \in Payloads, ok \in BOOLEAN : HTTPSend(p, ok)
    \/ \E p \in Payloads, ok \in BOOLEAN : BatchSend(p, ok)
    \/ BodyRaise
    \/ \E ok \in BOOLEAN : ScopeExit(ok)

SpecScoped == InitScoped /\ [][NextScoped]_vars

(***************************************************************************)
(* Tracker.coerceParameter and generate_uuid as functions of their         *)
(* arguments.                                                              *)
(***************************************************************************)
ResolveNames ==
    DOMAIN parameter_alias
        \cup {"&" \o r : r \in RawRests}
        \cup {"nope", ""}
ResolveValues ==
    {StrV("/b"), StrV("7"), StrV("abc"), IntV(1), IntV(7), FloatV(2), None}

\* Tracker.coerceParameter(n1, v) and Tracker.coerceParameter(n2, v), the
\* one pair of calls of a behaviour.
Resolve(n1, n2, v) ==
    /\ res.op = "init"
    /\ res' = [op |-> "resolve", n1 |-> n1, n2 |-> n2, v |-> v,
               r1 |-> coerceParameter(n1, v), r2 |-> coerceParameter(n2, v)]
    /\ UNCHANGED <<transportVars, trackerVars, scopeVars, asyncVars>>

\* The arguments generate_uuid is called with, and the UUIDs uuid.uuid4() can
\* draw.
UuidInputs ==
    {None, StrV("c1"), StrV("c2"), StrV(""), IntV(42), IntV(0), FloatV(2),
     DictV(<<>>)}
Uuid4Draws == {"uuid4-a", "uuid4-b", "uuid4-c"}

\* generate_uuid(basedata) called twice, uuid.uuid4() drawing rnd1 then rnd2;
\* the one pair of calls of a behaviour.
GenerateUuid(basedata, rnd1, rnd2) ==
    /\ res.op = "init"
    /\ res' = [op |-> "uuid", basedata |-> basedata,
               rnd1 |-> rnd1, rnd2 |-> rnd2,
               u1 |-> generate_uuid(basedata, rnd1),
               u2 |-> generate_uuid(basedata, rnd2)]
    /\ UNCHANGED <<transportVars, trackerVars, scopeVars, asyncVars>>

InitResolve ==
    TransportIdle /\ TrackerIdle /\ ScopeIdle /\ ResolveIdle /\ AsyncIdle

\* The second names n1 is paired with: the names registered for the same wire
\* code, and a few names that are not.
ResolvePartners(n1) ==
    {n \in DOMAIN parameter_alias :
        /\ n1 \in DOMAIN parameter_alias
        /\ parameter_alias[n].base = parameter_alias[n1].base}
        \cup {"v", "cm1", "&v", "nope"}

NextResolve ==
    \/ \E n1 \in ResolveNames, v \in ResolveValues :
          \E n2 \in ResolvePartners(n1) : Resolve(n1, n2, v)
    \/ \E b \in UuidInputs, rnd1 \in Uuid4Draws, rnd2 \in Uuid4Draws :
          GenerateUuid(b, rnd1, rnd2)

SpecResolve == InitResolve /\ [][NextResolve]_vars

(***************************************************************************)
(* AsyncHTTPBatchRequest shared by coroutines of one event loop.  A call   *)
(* runs without interruption up to an await on the session, where the loop *)
(* may run another coroutine; the awaited call's outcome is fixed when it  *)
(* is issued and seen by the caller when it returns.                       *)
(***************************************************************************)
\* AsyncHTTPBatchRequest.endpoint
AsyncBatchEndpoint == "https://www.google-analytics.com/batch"

\* AsyncHTTPRequest.send up to its await: the body is encoded from the data
\* as it is now, then session.post(self.endpoint, data=payload) is issued.
AsyncPostCall(data, ok, call) ==
    [op |-> "post", url |-> AsyncBatchEndpoint, hits |-> data,
     body |-> encode_payload([list |-> data]), ok |-> ok, call |-> call]

\* AsyncHTTPBatchRequest.send, line 157: self._batch_data.append(data)
AsyncBatchAppend(buf, hit) == Append(buf, hit)

\* AsyncHTTPBatchRequest.send, line 158
AsyncBatchFull_gt(buf, m) == Len(buf) > m
AsyncBatchFull(buf, m) == Len(buf) >= m

\* AsyncHTTPBatchRequest.reset, run by _send after its await: the buffer is
\* replaced by an empty list, whatever it holds by then.
AsyncReset_keep(buf) == buf
AsyncReset(buf) == <<>>

\* Another coroutine is suspended inside a call when c starts one.
Overlaps(c) == \E d \in Coroutines \ {c} : a_tasks[d].pc # "idle"

\* The coroutine that makes the next call.  Coroutines keep nothing between
\* their calls, so which of the idle ones runs makes no difference: it is
\* the first.
Runs(c) ==
    /\ a_tasks[c].pc = "idle"
    /\ \A d \in Coroutines : a_tasks[d].pc = "idle" => c <= d

\* The calls the coroutines make on the async Transport.
MaxAsyncSends == 4
MaxAsyncCloses == 2

\* The hits the callers of the async Transport send.
AsyncPayloads == { << <<"foo", "bar">> >> }

\* The call of coroutine c returns or raises.
Complete(c, raised) ==
    /\ a_tasks' = [a_tasks EXCEPT ![c] = IdleTask]
    /\ a_calls' = [a_calls EXCEPT ![a_tasks[c].call].raised = raised]
    /\ last' = [op |-> a_tasks[c].op, raised |-> raised]

\* Coroutine c is suspended at an await of its call.
Suspend(c, pc, op, call, ok) ==
    a_tasks' = [a_tasks EXCEPT ![c] =
                   [pc |-> pc, op |-> op, call |-> call, ok |-> ok]]

\* await AsyncHTTPBatchRequest.send(data), up to its first await or, when
\* the buffer is not full, to its return.
AsyncSend(c, data, ok) ==
    /\ variant = "AsyncHTTPBatchRequest"
    /\ Runs(c)
    /\ Len(sent) < MaxAsyncSends
    /\ LET call == ncalls + 1
           hit == [id |-> Len(sent) + 1, payload |-> data]
           buf == AsyncBatchAppend(batch_data, hit)
           full == AsyncBatchFull(buf, max_batch_size) /\ buf # <<>>
       IN /\ (~full => ok)
          /\ sent' = Append(sent, hit)
          /\ batch_data' = buf
          /\ ncalls' = call
          /\ a_overlap' = (a_overlap \/ Overlaps(c))
          /\ IF full
             THEN /\ session' = Append(session, AsyncPostCall(buf, ok, call))
                  /\ Suspend(c, "post", "send", call, ok)
                  /\ a_calls' = Append(a_calls,
                         [op |-> "send", hit |-> hit, ok |-> ok,
                          raised |-> "pending"])
                  /\ UNCHANGED last
             ELSE /\ a_calls' = Append(a_calls,
                         [op |-> "send", hit |-> hit, ok |-> ok,
                          raised |-> "none"])
                  /\ last' = [op |-> "send", raised |-> "none"]
                  /\ UNCHANGED <<session, a_tasks>>
    /\ UNCHANGED <<max_batch_size, trackerVars, scopeVars, resolveVars>>

\* await AsyncHTTPBatchRequest.close(), up to its first await: the POST of
\* _send when the buffer is non-empty, else session.aclose().
AsyncClose(c, ok) ==
    /\ variant = "AsyncHTTPBatchRequest"
    /\ Runs(c)
    /\ Cardinality({i \in 1..Len(a_calls) : a_calls[i].op = "close"})
           < MaxAsyncCloses
    /\ LET call == ncalls + 1
       IN /\ (batch_data = <<>> => ok)
          /\ ncalls' = call
          /\ a_overlap' = (a_overlap \/ Overlaps(c))
          /\ a_calls' = Append(a_calls,
                 [op |-> "close", hit |-> [id |-> 0, payload |-> <<>>],
                  ok |-> ok, raised |-> "pending"])
          /\ IF batch_data # <<>>
             THEN /\ session' =
                         Append(session, AsyncPostCall(batch_data, ok, call))
                  /\ Suspend(c, "post", "close", call, ok)
                  /\ UNCHANGED batch_data
             ELSE /\ batch_data' = AsyncReset(batch_data)
                  /\ session' = Append(session, CloseCall(call))
                  /\ Suspend(c, "aclose", "close", call, ok)
    /\ UNCHANGED <<max_batch_size, sent, last, trackerVars, scopeVars,
                   resolveVars>>

\* The POST awaited by coroutine c returns or raises.  When it returns,
\* _send resets the buffer; send() then returns and close() goes on to await
\* session.aclose().  When it raises, the exception leaves the call.
AsyncPostReturns(c) ==
    /\ a_tasks[c].pc = "post"
    /\ LET t == a_tasks[c]
       IN IF ~t.ok
          THEN /\ Complete(c, "NetworkError")
               /\ UNCHANGED <<batch_data, session>>
          ELSE /\ batch_data' = AsyncReset(batch_data)
               /\ IF t.op = "send"
                  THEN /\ Complete(c, "none")
                       /\ UNCHANGED session
                  ELSE /\ session' = Append(session, CloseCall(t.call))
                       /\ Suspend(c, "aclose", "close", t.call, t.ok)
                       /\ UNCHANGED <<a_calls, last>>
    /\ UNCHANGED <<max_batch_size, sent, ncalls, a_overlap, trackerVars,
                   scopeVars, resolveVars>>

\* The session.aclose() awaited by coroutine c returns: close() returns.
AsyncAcloseReturns(c) ==
    /\ a_tasks[c].pc = "aclose"
    /\ Complete(c, "none")
    /\ UNCHANGED <<max_batch_size, batch_data, session, sent, ncalls,
                   a_overlap, trackerVars, scopeVars, resolveVars>>

InitAsync ==
    /\ TransportInit
    /\ variant = "AsyncHTTPBatchRequest"
    /\ scope = Unscoped
    /\ TrackerIdle
    /\ ResolveIdle
    /\ AsyncIdle

NextAsync ==
    \/ \E c \in Coroutines, p \in AsyncPayloads, ok \in BOOLEAN :
          AsyncSend(c, p, ok)
    \/ \E c \in Coroutines, ok \in BOOLEAN : AsyncClose(c, ok)
    \/ \E c \in Coroutines : AsyncPostReturns(c)
    \/ \E c \in Coroutines : AsyncAcloseReturns(c)

SpecAsync == InitAsync /\ [][NextAsync]_vars

(***************************************************************************)
(* Properties of the batch Transport (checked under Spec).                 *)
(***************************************************************************)
\* The session.post calls made so far, in order.
Posts == SelectSeq(session, LAMBDA c : c.op = "post")

\* No session.post call has raised.
NoFailure == \A i \in 1..Len(session) : session[i].ok

\* k hits were sent one after another and the Transport was then closed, all
\* without network failure: the only close() is the last call.
SentThenClosed ==
    /\ last.op = "close"
    /\ ncalls = Len(sent) + 1
    /\ NoFailure

\* The POSTs that contain hit h.
PostsOf(h) ==
    {i \in 1..Len(session) :
        session[i].op = "post" /\ h \in Range(session[i].hits)}

\* C1: k hits sent through a batch Transport with max_batch_size = m and no
\* network failure, then close: exactly ceil(k / m) POSTs; every POST but the
\* last carries m hits, the last carries k mod m hits (m when k is a positive
\* multiple of m); close() adds a POST exactly when k mod m is not 0.
C1_BatchFlushSizeLaw ==
    SentThenClosed =>
        LET k == Len(sent)
            m == max_batch_size
            P == Posts
        IN /\ Len(P) = (k + m - 1) \div m
           /\ \A i \in 1..(Len(P) - 1) : Len(P[i].hits) = m
           /\ Len(P) > 0 =>
                 Len(P[Len(P)].hits) = (IF k % m = 0 THEN m ELSE k % m)
           /\ Cardinality({i \in 1..Len(P) : P[i].call = ncalls})
                 = (IF k % m = 0 THEN 0 ELSE 1)

\* 5 sends with max_batch_size 2, then close: POST sizes [2, 2, 1].
C1_Witness ==
    /\ SentThenClosed
    /\ Len(sent) = 5
    /\ max_batch_size = 2
    /\ [i \in 1..Len(Posts) |-> Len(Posts[i].hits)] = <<2, 2, 1>>

\* C2: a close() call on a non-empty buffer POSTs the whole buffer to the
\* batch endpoint, and the session is closed only after that POST; when
\* close() returns normally the buffer is empty, the session has been closed
\* and every hit accepted by send() has been included in a POST.
C2_CloseFlushesBeforeRelease ==
    [][(ncalls' = ncalls + 1 /\ last'.op = "close") =>
        LET n == Len(session)
            new == SubSeq(session', n + 1, Len(session'))
        IN /\ SubSeq(session', 1, n) = session
           /\ batch_data # <<>> =>
                 /\ Len(new) >= 1
                 /\ new[1].op = "post"
                 /\ new[1].url = BatchEndpoint
                 /\ new[1].hits = batch_data
                 /\ \A j \in 1..Len(new) : new[j].op = "close" => j > 1
           /\ last'.raised = "none" =>
                 /\ batch_data' = <<>>
                 /\ Len(new) >= 1 /\ new[Len(new)].op = "close"
                 /\ \A i \in 1..Len(sent') :
                       \E j \in 1..Len(session') :
                          /\ session'[j].op = "post"
                          /\ sent'[i] \in Range(session'[j].hits)
      ]_vars

\* A close() that flushed a non-empty buffer and then closed the session.
C2_Witness ==
    /\ last.op = "close" /\ last.raised = "none"
    /\ Len(session) >= 2
    /\ session[Len(session)].op = "close"
    /\ session[Len(session) - 1].op = "post"
    /\ session[Len(session) - 1].call = ncalls
    /\ batch_data = <<>>

\* C3: when the POST of a batch flush fails, the error surfaces to the caller
\* of send()/close() and the batch buffer is empty afterwards.
C3_FailedFlushClearsBuffer ==
    /\ (ncalls > 0 /\ session # <<>> /\ session[Len(session)].call = ncalls
          /\ ~session[Len(session)].ok) => last.raised # "none"
    /\ last.raised # "none" => batch_data = <<>>

\* C4: every hit accepted by send() appears in the body of at most one POST
\* attempt, also when some POSTs fail.
C4_AtMostOnePostPerHit ==
    \A i \in 1..Len(sent) : Cardinality(PostsOf(sent[i])) <= 1

\* C5: the buffer never holds more than max_batch_size hits, and holds fewer
\* than max_batch_size hits whenever send() or close() has returned.
C5_BufferBounded ==
    /\ Len(batch_data) <= max_batch_size
    /\ (last.op \in {"send", "close"} /\ last.raised = "none") =>
          Len(batch_data) < max_batch_size

\* C6: sends followed by close with no network failure: the hits of the
\* successive POSTs, concatenated, are exactly the hits sent, in order; each
\* body is the newline-joined encoding of its hits; two hits sent and then
\* closed give one POST to the batch endpoint with body hit1 newline hit2.
C6_BatchOrderPreserved ==
    SentThenClosed =>
        /\ Concat([i \in 1..Len(Posts) |-> Posts[i].hits]) = sent
        /\ \A i \in 1..Len(Posts) :
              /\ Posts[i].url = BatchEndpoint
              /\ Posts[i].body =
                    JoinStr([j \in 1..Len(Posts[i].hits) |->
                               IF Posts[i].hits[j].payload
                                    = << <<"foo", "bar">> >>
                               THEN "foo=bar" ELSE "bar=foo"], "\n")
        /\ ( /\ max_batch_size > 2
             /\ [i \in 1..Len(sent) |-> sent[i].payload]
                  = << << <<"foo", "bar">> >>, << <<"bar", "foo">> >> >> )
            => /\ Len(Posts) = 1
               /\ Posts[1].url = BatchEndpoint
               /\ Posts[1].body = "foo=bar\nbar=foo"

\* {"foo": "bar"} then {"bar": "foo"} sent with max_batch_size 3, then close.
C6_Witness ==
    /\ SentThenClosed
    /\ max_batch_size = 3
    /\ [i \in 1..Len(sent) |-> sent[i].payload]
         = << << <<"foo", "bar">> >>, << <<"bar", "foo">> >> >>
    /\ Len(Posts) = 1

(***************************************************************************)
(* Properties of the Tracker (checked under SpecTracker).                  *)
(***************************************************************************)
\* name is neither registered nor begins with the raw-override marker.
Unrecognized(name) ==
    /\ name \notin DOMAIN parameter_alias
    /\ ~StartsWithMarker(name)

\* The values the items of dict d supply for wire code w: the coerced value
\* of every item whose key resolves to w.
SuppliedBy(d, w) ==
    {coerceParameter(d[i][1], d[i][2]).value :
        i \in {j \in 1..Len(d) :
                 /\ coerceParameter(d[j][1], d[j][2]).err = "none"
                 /\ coerceParameter(d[j][1], d[j][2]).param = w}}

\* The values a send(hittype, *args, **kw) call supplies for wire code w: as
\* keyword data, by a positional schema slot, or inside a mapping argument.
CallerValues(hittype, args, kw, w) ==
    LET slots == IF hittype \in {"pageview", "event", "social", "timing"}
                 THEN option_sequence[hittype] ELSE <<>>
    IN SuppliedBy(kw, w)
       \cup UNION {SuppliedBy(args[i].v, w) :
                     i \in {j \in 1..Len(args) : args[j].ty = "dict"}}
       \cup {coerceParameter(w, args[i]).value :
               i \in {j \in 1..Len(slots) :
                        /\ j <= Len(args)
                        /\ slots[j][2] = w
                        /\ args[j].ty = slots[j][1]
                        /\ coerceParameter(w, args[j]).err = "none"}}

\* C7: in every send that delivers a payload, a wire code for which the call
\* supplies a value (keyword data under the wire code or an alias, a
\* positional slot, a mapping argument) while session state holds a different
\* value carries the caller's value in the payload, not the session value.
C7_SessionNeverOverwritesCallData ==
    (tlast.op = "send" /\ tlast.delivered) =>
        \A w \in DictKeys(tlast.before) :
            LET cv == CallerValues(tlast.hittype, tlast.args, tlast.kw, w)
                sv == DictGet(tlast.before, w)
            IN (cv # {} /\ sv \notin cv
                  /\ coerceParameter(w, sv).value \notin cv)
               => /\ DictHas(tlast.payload, w)
                  /\ DictGet(tlast.payload, w) \in cv

\* C8: send with a hit type outside the closed set raises the
\* unsupported-hit-type error, does not call the Transport's send and leaves
\* the session state unchanged; with a hit type inside the set that error is
\* not raised.
C8_UnsupportedHitTypeRejected ==
    [][(tops' = tops + 1 /\ tlast'.op = "send") =>
        IF tlast'.hittype \in {"pageview", "event", "social", "screenview",
                               "transaction", "item", "exception", "timing"}
        THEN tlast'.raised # ErrHitType
        ELSE /\ tlast'.raised = ErrHitType
             /\ ~tlast'.delivered
             /\ http' = http
             /\ params' = params
             /\ hash_client_id' = hash_client_id
      ]_vars

\* send("bogus", ...) was rejected.
C8_Witness ==
    /\ tlast.op = "send"
    /\ tlast.hittype = "bogus"
    /\ tlast.raised = ErrHitType
    /\ ~tlast.delivered
    /\ http = 0

\* C9: set(name, value) with an unrecognized string name raises no error and
\* leaves the session state unchanged; set(mapping) raises no error because
\* of an unrecognized name, leaves the session unchanged for that name, and
\* still writes every recognized entry, coerced, under its wire code.
C9_SetIgnoresUnrecognizedNames ==
    /\ (tlast.op = "set" /\ Unrecognized(tlast.name)) =>
          /\ tlast.raised = "none"
          /\ params = tlast.before
    /\ (/\ tlast.op = "setmapping"
        /\ \A i \in 1..Len(tlast.mapping) :
              \/ Unrecognized(tlast.mapping[i][1])
              \/ coerceParameter(tlast.mapping[i][1],
                                 tlast.mapping[i][2]).err = "none") =>
          /\ tlast.raised = "none"
          /\ \A i \in 1..Len(tlast.mapping) :
                LET k == tlast.mapping[i][1]
                    c == coerceParameter(k, tlast.mapping[i][2])
                IN IF Unrecognized(k)
                   THEN DictGet(params, k) = DictGet(tlast.before, k)
                   ELSE DictGet(params, c.param) = c.value

\* C10: the item-style accessors called with an unrecognized name raise the
\* unrecognized-parameter error and leave the session state unchanged, while
\* the same name passed to set() or as keyword data to send() raises nothing.
C10_StrictSingleKeyAccess ==
    /\ (tlast.op \in {"getitem", "setitem", "delitem"}
          /\ Unrecognized(tlast.name)) =>
          /\ tlast.raised = ErrUnrecognized
          /\ params = tlast.before
    /\ (tlast.op = "set" /\ Unrecognized(tlast.name)) =>
          tlast.raised = "none"
    /\ (/\ tlast.op = "send"
        /\ \E i \in 1..Len(tlast.kw) :
              /\ Unrecognized(tlast.kw[i][1])
              /\ tlast.kw[i][1] \notin {"hittime", "hitage"}) =>
          tlast.raised \notin {ErrUnrecognized, "IndexError"}

\* C11: tracker[name] with a registered name (human name or wire code,
\* whatever its coercer) raises no error and returns the session value of its
\* wire code, the null sentinel when that wire code is unset; del tracker[name]
\* raises no error either, removes the wire code, and is a no-op when it is
\* unset.
C11_GetDelNeverFailOnRegisteredName ==
    (tlast.op \in {"getitem", "delitem"}
       /\ tlast.name \in DOMAIN parameter_alias) =>
        LET w == parameter_alias[tlast.name].base
        IN /\ tlast.raised = "none"
           /\ tlast.op = "getitem" =>
                 /\ tlast.result = DictGet(tlast.before, w)
                 /\ params = tlast.before
           /\ tlast.op = "delitem" =>
                 /\ ~DictHas(params, w)
                 /\ ~DictHas(tlast.before, w) => params = tlast.before

\* The send call of tlast names a supported hit type, and the Tracker can
\* take the client id it hashes from its session.
SendCanComplete ==
    /\ tlast.op = "send"
    /\ tlast.hittype \in {"pageview", "event", "social", "screenview",
                          "transaction", "item", "exception", "timing"}
    /\ hash_client_id => DictHas(tlast.before, "cid")

\* C12: a send whose keyword data holds hittime (a Unix-seconds number or a
\* datetime) or hitage (relative seconds) completes without error and
\* delivers a payload whose qt is an integer number of milliseconds, A * 1000
\* for hitage = A, and which has neither a hittime nor a hitage key.
C12_TimestampNormalization ==
    (SendCanComplete
       /\ (DictHas(tlast.kw, "hittime") \/ DictHas(tlast.kw, "hitage"))) =>
        /\ tlast.raised = "none"
        /\ tlast.delivered
        /\ DictGet(tlast.payload, "qt").ty = "int"
        /\ DictHas(tlast.kw, "hitage") =>
              DictGet(tlast.payload, "qt")
                 = IntV(DictGet(tlast.kw, "hitage").v * 1000)
        /\ ~DictHas(tlast.payload, "hittime")
        /\ ~DictHas(tlast.payload, "hitage")

\* C13: a send with both hittime = T (a Unix-seconds number or a datetime)
\* and hitage = A delivers a payload with the same qt as the same send with
\* hitage = A alone.
C13_TimestampPrecedence ==
    (SendCanComplete
       /\ DictHas(tlast.kw, "hittime") /\ DictHas(tlast.kw, "hitage")) =>
        /\ tlast.delivered
        /\ DictGet(tlast.payload, "qt")
             = DictGet(TrackerSendResult(
                          tlast.before, hash_client_id, tlast.hittype,
                          tlast.args,
                          << <<"hitage", DictGet(tlast.kw, "hitage")>> >>,
                          0).payload, "qt")

\* The ordered schema of positional arguments of a hit type, as
\* <<expected type, wire code>> slots.
SchemaOf(hittype) ==
    CASE hittype = "pageview" -> << <<"str", "dp">> >>
      [] hittype = "event" -> << <<"str", "ec">>, <<"str", "ea">>,
                                 <<"str", "el">>, <<"int", "ev">> >>
      [] OTHER -> <<>>

\* The values the mapping arguments of a send call supply for wire code w.
MappedValues(args, w) ==
    UNION {SuppliedBy(args[i].v, w) :
             i \in {j \in 1..Len(args) : args[j].ty = "dict"}}

\* C14: in a delivered send the i-th schema slot of the hit type looks at the
\* i-th positional argument only: an argument of the slot's type is delivered
\* under the slot's wire code; otherwise the slot stays unassigned (the wire
\* code then carries the session value, or is absent) and the next slot still
\* looks at the next argument.  send("event", 123, "act") raises nothing and
\* delivers ea = "act" and no ec.
C14_PositionalSlotsArePositional ==
    /\ (tlast.op = "send" /\ tlast.delivered) =>
          \A i \in 1..Len(SchemaOf(tlast.hittype)) :
             LET w == SchemaOf(tlast.hittype)[i][2]
                 match == /\ i <= Len(tlast.args)
                          /\ tlast.args[i].ty = SchemaOf(tlast.hittype)[i][1]
             IN IF match
                THEN MappedValues(tlast.args, w) = {} =>
                        DictGet(tlast.payload, w)
                           = coerceParameter(w, tlast.args[i]).value
                ELSE (SuppliedBy(tlast.kw, w) = {}
                        /\ MappedValues(tlast.args, w) = {}) =>
                        IF DictHas(tlast.before, w)
                        THEN DictGet(tlast.payload, w)
                               = coerceParameter(
                                    w, DictGet(tlast.before, w)).value
                        ELSE ~DictHas(tlast.payload, w)
    /\ (SendCanComplete /\ tlast.hittype = "event"
          /\ tlast.args = <<IntV(123), StrV("act")>> /\ tlast.kw = <<>>) =>
          /\ tlast.raised = "none"
          /\ tlast.delivered
          /\ DictGet(tlast.payload, "ea") = StrV("act")
          /\ ~DictHas(tlast.payload, "ec")

\* send("event", 123, "act") was delivered with ea = "act" and no ec.
C14_Witness ==
    /\ tlast.op = "send" /\ tlast.delivered
    /\ tlast.hittype = "event"
    /\ tlast.args = <<IntV(123), StrV("act")>>
    /\ DictGet(tlast.payload, "ea") = StrV("act")
    /\ ~DictHas(tlast.payload, "ec")

\* C15: every send that raises nothing delivers one payload, which holds
\* every wire code of the session state that the call does not supply, with
\* its session value (compared as coerced by the registry; for cid on a
\* hashing Tracker, the identifier derived from it); the first send("pageview",
\* path) of a Tracker(account, transport) delivers t = pageview, dp = path,
\* v = 1, tid = account and cid = the client id chosen at construction.
C15_PayloadComposition ==
    /\ (tlast.op = "send" /\ tlast.raised = "none") =>
          /\ tlast.delivered
          /\ http >= 1
          /\ \A w \in DictKeys(tlast.before) :
                CallerValues(tlast.hittype, tlast.args, tlast.kw, w) = {} =>
                   /\ DictHas(tlast.payload, w)
                   /\ DictGet(tlast.payload, w) \in
                         {DictGet(tlast.before, w),
                          StrV(StrOf(DictGet(tlast.before, w)))}
                         \cup (IF hash_client_id /\ w = "cid"
                               THEN {generate_uuid(DictGet(tlast.before, w),
                                                   "").value}
                               ELSE {})
    /\ (tlast.op = "send" /\ tops = 1 /\ ~hash_client_id
          /\ tlast.hittype = "pageview" /\ tlast.args = <<StrV("/a")>>
          /\ tlast.kw = <<>> /\ ~DictHas(tlast.before, "uid")) =>
          /\ http = 1
          /\ tlast.payload =
                << <<"t", StrV("pageview")>>, <<"dp", StrV("/a")>>,
                   <<"v", IntV(1)>>, <<"tid", StrV(account0)>>,
                   <<"cid", DictGet(tlast.before, "cid")>> >>

WritesTid(call) ==
    \/ /\ call.op \in {"set", "setitem", "delitem"}
       /\ call.name \in {"tid", "trackingId", "account", "&tid"}
    \/ /\ call.op = "setmapping"
       /\ \E i \in 1..Len(call.mapping) :
             call.mapping[i][1] \in {"tid", "trackingId", "account", "&tid"}

C16_ScopedClose ==
    /\ scope.pc \in {"new", "body", "raised"} =>
          /\ scope.closes = 0
          /\ last.op # "close"
    /\ scope.pc = "left" =>
          /\ scope.closes = 1
          /\ last.op = "close"
          /\ scope.body_error # "none" => scope.propagated # "none"
          /\ last.raised = "none" => scope.propagated = scope.body_error

\* A with statement whose body raised was left: close() ran once, closed the
\* session, and the body's error left the statement.
C16_Witness ==
    /\ scope.pc = "left"
    /\ variant = "AsyncHTTPRequest"
    /\ scope.body_error = "BodyError"
    /\ scope.propagated = "BodyError"
    /\ scope.closes = 1
    /\ session # <<>>
    /\ session[Len(session)].op = "close"

\* C17: every send on a non-batch Transport makes exactly one POST, to the
\* collect endpoint, with the encoding of the hit sent as its body, within
\* the send call; a batch Transport POSTs to the batch endpoint only.
C17_NonBatchSendsOnePostEach ==
    /\ [](IsBatch(variant) =>
            \A i \in 1..Len(session) :
                session[i].op = "post" =>
                    session[i].url = "https://www.google-analytics.com/batch")
    /\ [][(ncalls' = ncalls + 1 /\ last'.op = "send" /\ ~IsBatch(variant)) =>
            /\ Len(session') = Len(session) + 1
            /\ SubSeq(session', 1, Len(session)) = session
            /\ LET post == session'[Len(session')]
                   hit == sent'[Len(sent')]
               IN /\ post.op = "post"
                  /\ post.call = ncalls'
                  /\ post.url = "https://www.google-analytics.com/collect"
                  /\ post.hits = <<hit>>
                  /\ post.body = (IF hit.payload = << <<"foo", "bar">> >>
                                  THEN "foo=bar" ELSE "bar=foo")
         ]_vars

\* Two hits sent through an HTTPRequest: two POSTs to the collect endpoint.
C17_Witness ==
    /\ variant = "HTTPRequest"
    /\ Len(sent) = 2
    /\ last.op = "send"
    /\ Len(Posts) = 2
    /\ \A i \in 1..2 :
          /\ Posts[i].url = "https://www.google-analytics.com/collect"
          /\ Posts[i].hits = <<sent[i]>>

(***************************************************************************)
(* Properties of coerceParameter (checked under SpecResolve).              *)
(***************************************************************************)
\* C19: two registered names (human names or the wire code) of the same wire
\* code resolve a value their coercer accepts to the same pair, the wire code
\* and the value coerced to the coercer's type; the wire code of a registered
\* name is registered with the same coercer, so every name has one pair.
C19_AliasEquivalence ==
    /\ \A n \in DOMAIN parameter_alias :
          /\ parameter_alias[n].base \in DOMAIN parameter_alias
          /\ parameter_alias[parameter_alias[n].base] = parameter_alias[n]
    /\ (/\ res.op = "resolve"
        /\ res.n1 \in DOMAIN parameter_alias
        /\ res.n2 \in DOMAIN parameter_alias
        /\ parameter_alias[res.n1].base = parameter_alias[res.n2].base
        /\ res.r1.err = "none") =>
          /\ res.r2 = res.r1
          /\ res.r1.param = parameter_alias[res.n1].base
          /\ res.r1.value.ty =
                (CASE parameter_alias[res.n1].typecast = "int" -> "int"
                   [] parameter_alias[res.n1].typecast = "float" -> "float"
                   [] OTHER -> "str")
    /\ (res.op = "resolve" /\ res.n1 = "page" /\ res.n2 = "path"
          /\ res.v = IntV(7)) =>
          /\ res.r1 = [err |-> "none", param |-> "dp", value |-> StrV("7")]
          /\ res.r2 = res.r1
    /\ (res.op = "resolve" /\ res.n1 = "ev" /\ res.n2 = "value"
          /\ res.v = StrV("7")) =>
          /\ res.r1 = [err |-> "none", param |-> "ev", value |-> IntV(7)]
          /\ res.r2 = res.r1

\* "ev" and its alias "value" both resolved "7" to ("ev", 7).
C19_Witness ==
    /\ res.op = "resolve"
    /\ res.n1 = "ev" /\ res.n2 = "value"
    /\ res.v = StrV("7")
    /\ res.r1 = res.r2
    /\ res.r1.value = IntV(7)

\* C20: a name that begins with "&" resolves, for every value, to the name
\* without the marker and str(value); no error is raised, the rest of the
\* name need not be registered, and the coercer registered for a wire code of
\* the same name is not applied: "&v" with 1 gives ("v", "1").
C20_RawOverride ==
    /\ (res.op = "resolve" /\ \E r \in {"foo", "v", "page", "dp", ""} :
                                 res.n1 = "&" \o r) =>
          /\ res.r1.err = "none"
          /\ res.n1 = "&" \o res.r1.param
          /\ res.r1.value.ty = "str"
          /\ res.v.ty = "str" => res.r1.value = res.v
          /\ res.v = IntV(1) => res.r1.value = StrV("1")
          /\ res.v = FloatV(2) => res.r1.value = StrV("2.0")
          /\ res.v = None => res.r1.value = StrV("None")
    /\ (res.op = "resolve" /\ res.n1 = "&v" /\ res.v = IntV(1)) =>
          res.r1 = [err |-> "none", param |-> "v", value |-> StrV("1")]

\* "&v" was resolved with the value 1.
C20_Witness ==
    /\ res.op = "resolve"
    /\ res.n1 = "&v"
    /\ res.v = IntV(1)
    /\ res.r1.param = "v"
    /\ res.r1.value = StrV("1")

(***************************************************************************)
(* Properties of generate_uuid (checked under SpecResolve).                *)
(***************************************************************************)
\* C21: generate_uuid of a string depends on the string alone: two calls with
\* the same string return the same identifier, whatever uuid4 would draw;
\* generate_uuid of an argument that is neither None nor a string raises
\* TypeError and returns no identifier.
C21_GenerateUuidDeterministicAndStrict ==
    res.op = "uuid" =>
        /\ res.basedata.ty = "str" =>
              /\ res.u1.err = "none"
              /\ res.u2 = res.u1
              /\ res.u1.value.ty = "str"
              /\ res.u1.value.v \notin {res.rnd1, res.rnd2}
        /\ res.basedata.ty \notin {"none", "str"} =>
              /\ res.u1.err = "TypeError"
              /\ res.u1.value = None
              /\ res.u2 = res.u1

\* generate_uuid("c1") was called twice with different uuid4 draws and
\* returned one identifier.
C21_Witness ==
    /\ res.op = "uuid"
    /\ res.basedata = StrV("c1")
    /\ res.rnd1 # res.rnd2
    /\ res.u1 = res.u2
    /\ res.u1.err = "none"

(***************************************************************************)
(* Further properties of the Tracker (checked under SpecTracker).          *)
(***************************************************************************)
\* C22: the payload of every delivered send has t equal to the hit type
\* passed as first argument, whatever the arguments, keyword data and
\* session state are.
C22_HitTypeReachesWire ==
    (tlast.op = "send" /\ tlast.delivered) =>
        /\ DictHas(tlast.payload, "t")
        /\ DictGet(tlast.payload, "t") = StrV(tlast.hittype)

\* C23: on a Tracker that hashes the client id, send never fails for want of
\* a client id to hash, and every delivered payload has as cid the
\* identifier derived from the current client id (the same for the same
\* client id), not the client id itself; the session keeps its own cid.
C23_HashedClientId ==
    (tlast.op = "send" /\ hash_client_id) =>
        /\ tlast.raised # "KeyError: 'cid'"
        /\ tlast.delivered =>
              /\ DictGet(tlast.payload, "cid")
                   = StrV("md5(" \o DictGet(tlast.before, "cid").v \o ")")
              /\ DictGet(tlast.payload, "cid") # DictGet(tlast.before, "cid")
              /\ DictGet(params, "cid") = DictGet(tlast.before, "cid")

\* The wire code name is registered for.
WireCode(name) == parameter_alias[name].base

\* C24: set(n1, v) and tracker[n1] = v with a registered name and a value its
\* coercer accepts store coerce(v) under the wire code of n1; tracker[n2]
\* returns the value stored under the wire code of n2, hence coerce(v) for
\* every n2 of the same wire code; del tracker[n2] removes exactly that wire
\* code, after which a get returns the null value; each of these operations
\* raises nothing and leaves the entries of all other wire codes unchanged.
C24_AliasRoundTrip ==
    tlast.name \in DOMAIN parameter_alias =>
        LET w == WireCode(tlast.name)
            c == Typecast(parameter_alias[tlast.name].typecast, tlast.value)
        IN /\ (tlast.op \in {"set", "setitem"} /\ c.err = "none") =>
                 /\ tlast.raised = "none"
                 /\ DictGet(params, w) = c.value
                 /\ DictDel(params, w) = DictDel(tlast.before, w)
           /\ tlast.op = "getitem" =>
                 /\ tlast.raised = "none"
                 /\ tlast.result = DictGet(tlast.before, w)
                 /\ params = tlast.before
           /\ tlast.op = "delitem" =>
                 /\ tlast.raised = "none"
                 /\ params = DictDel(tlast.before, w)
                 /\ DictGet(params, w) = None

\* The keys of dict d whose resolution succeeds, as the wire code or
\* raw-override name they resolve to.
ResolvedKeys(d) ==
    {coerceParameter(d[i][1], d[i][2]).param :
        i \in {j \in 1..Len(d) :
                 coerceParameter(d[j][1], d[j][2]).err = "none"}}

\* C25: a send to a supported hit type without timestamps raises no error
\* because a key of its keyword data or of a mapping argument does not
\* resolve; such keys are left out of the payload, the keyword-data keys that
\* resolve are delivered, and every key of the payload is a registered wire
\* code or a raw-override name.
C25_UnresolvableKeysDropped ==
    (SendCanComplete
       /\ ~DictHas(tlast.kw, "hittime") /\ ~DictHas(tlast.kw, "hitage")) =>
        /\ tlast.raised = "none"
        /\ tlast.delivered
        /\ \A k \in DictKeys(tlast.payload) :
              \/ k \in DOMAIN parameter_alias /\ WireCode(k) = k
              \/ k \in {"foo", "v", "page", "dp", ""}
        /\ \A i \in 1..Len(tlast.kw) :
              Unrecognized(tlast.kw[i][1]) =>
                 ~DictHas(tlast.payload, tlast.kw[i][1])
        /\ \A w \in ResolvedKeys(tlast.kw) : DictHas(tlast.payload, w)

\* C27: a send call, delivered or raising, leaves the session state, the
\* account and the hash_client_id flag as they were before the call.
C27_SendDoesNotMutateTracker ==
    tlast.op = "send" =>
        /\ params = tlast.before
        /\ account = DictGet(tlast.before, "tid")
        /\ hash_client_id = tlast.hash_before

\* A send with a timestamp and a hashed client id was delivered on a session
\* that an earlier call had changed; the session state is as before the send.
C27_Witness ==
    /\ tlast.op = "send"
    /\ tlast.delivered
    /\ hash_client_id
    /\ DictHas(tlast.kw, "hitage")
    /\ DictGet(tlast.payload, "cid") # DictGet(params, "cid")
    /\ DictHas(params, "dp")
    /\ params = tlast.before

(***************************************************************************)
(* Further properties of the batch Transport (checked under Spec).         *)
(***************************************************************************)
\* C29: every close() call on a batch Transport closes the session before it
\* ends, also when its flush POST fails and close() raises.
C29_CloseAlwaysReleasesSession ==
    last.op = "close" =>
        /\ session # <<>>
        /\ session[Len(session)].op = "close"
        /\ session[Len(session)].call = ncalls

(***************************************************************************)
(* Properties of the async batch Transport (checked under SpecAsync).      *)
(***************************************************************************)
\* No coroutine is inside a call on the Transport.
Quiescent == \A c \in Coroutines : a_tasks[c].pc = "idle"

\* HTTPBatchRequest driven with the calls of history calls from call k on,
\* one after another, from state st: its session log, its buffer and what
\* each call raised.
RECURSIVE SyncRun(_, _, _)
SyncRun(st, calls, k) ==
    IF k > Len(calls) THEN st
    ELSE LET c == calls[k]
             r == IF c.op = "send"
                  THEN BatchSendResult(st.buf, max_batch_size, c.hit, c.ok, k)
                  ELSE BatchFlush(st.buf, c.ok, k)
             log == IF c.op = "send" THEN r.posts ELSE BatchCloseCalls(r, k)
         IN SyncRun([buf |-> r.buf, session |-> st.session \o log,
                     raised |-> Append(st.raised, r.raised)], calls, k + 1)

\* C26: for every serialised sequence of send and close calls (each awaited
\* to completion before the next starts) with the same pattern of POST
\* successes and failures, the async batch Transport issues the same session
\* calls as the sync batch Transport (same endpoint, same bodies, same
\* order), ends with the same buffer and raises at the same calls.
C26_SyncAsyncSameContract ==
    (~a_overlap /\ Quiescent) =>
        LET s == SyncRun([buf |-> reset, session |-> <<>>, raised |-> <<>>],
                         a_calls, 1)
        IN /\ session = s.session
           /\ batch_data = s.buf
           /\ [i \in 1..Len(a_calls) |-> a_calls[i].raised] = s.raised

\* C26 witness: a serialised history made by both coroutines, with a failed
\* POST, a later POST that carries more than max_batch_size hits, a close
\* that completed and a hit left in the buffer.
C26_Witness ==
    /\ ~a_overlap
    /\ Quiescent
    /\ variant = "AsyncHTTPBatchRequest"
    /\ \E i \in 1..Len(session) : session[i].op = "post" /\ ~session[i].ok
    /\ \E i \in 1..Len(session) :
          /\ session[i].op = "post"
          /\ session[i].ok
          /\ Len(session[i].hits) > max_batch_size
    /\ \E i \in 1..Len(session) : session[i].op = "close"
    /\ batch_data # <<>>

\* C28 as stated: coroutines interleave their calls, no POST fails and the
\* last call to complete is a close: every hit accepted by send is in exactly
\* one POST.
C28_ExactlyOnceUnderInterleaving ==
    (variant = "AsyncHTTPBatchRequest" /\ Quiescent /\ NoFailure
        /\ last.op = "close") =>
        \A h \in Range(sent) : Cardinality(PostsOf(h)) = 1

\* C28, amended: exactly-once delivery needs the callers to serialise their
\* calls.  When every call is awaited to completion before the next starts,
\* no POST fails and the last call to complete is a close, every hit accepted
\* by send is in exactly one POST.
C28_ExactlyOnceWhenSerialised ==
    (variant = "AsyncHTTPBatchRequest" /\ ~a_overlap /\ Quiescent /\ NoFailure
        /\ last.op = "close") =>
        \A h \in Range(sent) : Cardinality(PostsOf(h)) = 1

\* C28 witness: serialised calls of both coroutines, no failure, several
\* POSTs, the last of them made by the close that has just completed.
C28_Witness ==
    /\ variant = "AsyncHTTPBatchRequest"
    /\ ~a_overlap
    /\ Quiescent
    /\ NoFailure
    /\ last.op = "close"
    /\ Len(Posts) >= 2
    /\ Len(sent) > max_batch_size
    /\ a_calls[Posts[Len(Posts)].call].op = "close"
    /\ \A h \in Range(sent) : Cardinality(PostsOf(h)) = 1

\* Interleavings that break exactly-once delivery: a hit appended while a
\* flush was in flight and dropped by its reset, and a hit in two POSTs.
C28_LostHit ==
    /\ Quiescent /\ NoFailure /\ last.op = "close" /\ batch_data = <<>>
    /\ \E h \in Range(sent) : PostsOf(h) = {}
C28_DoublePost ==
    /\ Quiescent /\ NoFailure /\ last.op = "close"
    /\ \E h \in Range(sent) : Cardinality(PostsOf(h)) = 2

====
